---- MODULE Spec2Model ----
(***************************************************************************)
(* dependency-grouper: the reconciliation engine of src/src/cli.ts.        *)
(*                                                                         *)
(* A workspace is a registry file (.dep-groups.yaml) and a list of         *)
(* manifests (package.json files) in discovery order.  syncFromPackages    *)
(* promotes manifest dependencies into registry groups, mergeDepGroups     *)
(* overlays the referenced groups onto a manifest, generateDependencies    *)
(* runs the one and then the other over the whole workspace.               *)
(*                                                                         *)
(* Dependency names are the numbers 1..NumDeps, ordered as                 *)
(* Array.prototype.sort orders the names they stand for.  Version          *)
(* specifiers are 0..NumVersions, 0 standing for a specifier that starts   *)
(* with "workspace:".  A JavaScript object used as a map is the sequence   *)
(* of its <<key, value>> entries in insertion order, so that key order is  *)
(* part of the state.                                                      *)
(***************************************************************************)
EXTENDS Integers, Sequences, FiniteSets, TLC

\* ---------------------------------------------------------------- bounds
NumDeps == 2
NumVersions == 2
MaxRefs == 2
MaxEntries == 2
MaxRuns == 2
NumPkgs == 2
NumDevDeps == 1
MaxRootRefs == 1
MaxMergeEntries == 3
MaxSyncEntries == 4
MaxHookEntries == 1
MaxCliEntries == 1
MaxEmptyEntries == 3
MaxMergeRefs == 3
MaxMalformedEntries == 1

\* ------------------------------------------------------------- constants
WorkspaceVersion == 0

\* The empty string as a version: the one version string that is falsy.
EmptyVersion == NumVersions + 1

DepNames == 1..NumDeps
Versions == 0..NumVersions
RegistryVersions == 1..NumVersions
GroupNames == {"root", "standalone", "shared"}
Kinds == {"dependencies", "devDependencies"}

\* The names a bounded workspace uses under each kind.
NamesOf(kind) == IF kind = "dependencies" THEN DepNames ELSE 1..NumDevDeps

\* ------------------------------------------------- JavaScript object maps
\* An optional Record<string, string>: absent (undefined) or the entries in
\* insertion order.
Absent == [present |-> FALSE, e |-> <<>>]

Obj(s) == [present |-> TRUE, e |-> s]

RECURSIVE IndexOf(_, _, _)
IndexOf(s, k, i) ==
  IF i > Len(s) THEN 0
  ELSE IF s[i][1] = k THEN i
  ELSE IndexOf(s, k, i + 1)

\* The object has the key k.
Has(m, k) == m.present /\ IndexOf(m.e, k, 1) > 0

Get(m, k) == m.e[IndexOf(m.e, k, 1)][2]

\* m[k] = v on an object: an existing key keeps its position, a new key goes
\* last.
Put(m, k, v) ==
  IF IndexOf(m.e, k, 1) > 0
  THEN Obj([m.e EXCEPT ![IndexOf(m.e, k, 1)] = <<k, v>>])
  ELSE Obj(Append(m.e, <<k, v>>))

RECURSIVE PutAll(_, _, _)
PutAll(m, s, i) ==
  IF i > Len(s) THEN m
  ELSE PutAll(Put(m, s[i][1], s[i][2]), s, i + 1)

\* { ...b, ...a } in place of { ...a, ...b }: an entry of a is not overwritten.
RECURSIVE PutNew(_, _, _)
PutNew(m, s, i) ==
  IF i > Len(s) THEN m
  ELSE PutNew(IF IndexOf(m.e, s[i][1], 1) > 0 THEN m ELSE Put(m, s[i][1], s[i][2]),
              s, i + 1)

SpreadKeepFirst(a, b) == PutNew(Obj(a.e), b.e, 1)

\* { ...a, ...b }: spreading undefined gives no entry.
Spread(a, b) == PutAll(Obj(a.e), b.e, 1)

KeyBefore(p, q) == p[1] < q[1]

\* Object.keys(m).reverse() in place of .sort().
SortKeysReversed(m) == Obj([i \in DOMAIN m.e |-> m.e[Len(m.e) + 1 - i]])

\* Object.keys(m).sort().reduce(...): the same entries, keys ascending.
SortKeys(m) == Obj(SortSeq(m.e, KeyBefore))

KeySeq(m) == [i \in DOMAIN m.e |-> m.e[i][1]]

KeySet(m) == {m.e[i][1] : i \in DOMAIN m.e}

\* --------------------------------------------------------------- registry
\* A group of the parsed registry: the key is missing, its value is null (a
\* group written with no entry parses to null), or it is a DependencySet.
MissingGroup == [st |-> "missing", dependencies |-> Absent, devDependencies |-> Absent]

NullGroup == [st |-> "null", dependencies |-> Absent, devDependencies |-> Absent]

EmptyGroup == [st |-> "obj", dependencies |-> Absent, devDependencies |-> Absent]

\* !group
Falsy(g) == g.st # "obj"

MapOf(o, kind) == IF kind = "dependencies" THEN o.dependencies ELSE o.devDependencies

WithMap(o, kind, m) ==
  IF kind = "dependencies" THEN [o EXCEPT !.dependencies = m]
  ELSE [o EXCEPT !.devDependencies = m]

\* ------------------------------------------------------------------ merge
NoRefs == [present |-> FALSE, refs |-> <<>>]

Refs(s) == [present |-> TRUE, refs |-> s]

\* !packageJson.depGroups || packageJson.depGroups.length === 0
NoGroupRefs(pkg) == ~pkg.depGroups.present \/ Len(pkg.depGroups.refs) = 0

MissingWarning(g) ==
  [type |-> "missing", group |-> g, dep |-> 0, kind |-> "", version |-> 0,
   oldVersion |-> 0, oldGroup |-> ""]

ConflictWarning(dep, kind, old, g, version) ==
  [type |-> "conflict", group |-> g, dep |-> dep, kind |-> kind,
   version |-> version, oldVersion |-> old.version, oldGroup |-> old.group]

\* depVersions / devDepVersions: dependency name -> the version and group
\* that set it last, or nothing.
NoVersions == [d \in DepNames |-> [set |-> FALSE, version |-> 0, group |-> ""]]

\* The conflict loop that records only the first group to set a name.
RECURSIVE TrackEntriesKeepFirst(_, _, _, _, _)
TrackEntriesKeepFirst(st, s, i, g, kind) ==
  IF i > Len(s) THEN st
  ELSE
    LET dep == s[i][1]
        version == s[i][2]
        old == st.tracked[dep]
        w == IF old.set /\ old.version # version
             THEN Append(st.warnings, ConflictWarning(dep, kind, old, g, version))
             ELSE st.warnings
    IN TrackEntriesKeepFirst(
         [tracked |-> IF old.set THEN st.tracked
                      ELSE [st.tracked EXCEPT ![dep] =
                              [set |-> TRUE, version |-> version, group |-> g]],
          warnings |-> w],
         s, i + 1, g, kind)

\* The conflict loop over Object.entries(group[kind]): st is
\* [tracked, warnings].
RECURSIVE TrackEntries(_, _, _, _, _)
TrackEntries(st, s, i, g, kind) ==
  IF i > Len(s) THEN st
  ELSE
    LET dep == s[i][1]
        version == s[i][2]
        old == st.tracked[dep]
        w == IF old.set /\ old.version # version
             THEN Append(st.warnings, ConflictWarning(dep, kind, old, g, version))
             ELSE st.warnings
    IN TrackEntries(
         [tracked |-> [st.tracked EXCEPT ![dep] =
                         [set |-> TRUE, version |-> version, group |-> g]],
          warnings |-> w],
         s, i + 1, g, kind)

\* The overlay that replaces the merged map by the group's map.
OverlayKindReplace(acc, group, g, kind) ==
  IF ~MapOf(group, kind).present THEN acc
  ELSE [acc EXCEPT !.merged = WithMap(@, kind, Spread(Absent, MapOf(group, kind)))]

\* One kind of one existing group: track conflicts, then overlay.
OverlayKind(acc, group, g, kind) ==
  IF ~MapOf(group, kind).present THEN acc
  ELSE
    LET tr == TrackEntries(
                [tracked |-> MapOf(acc.tracked, kind), warnings |-> acc.warnings],
                MapOf(group, kind).e, 1, g, kind)
    IN [merged |-> WithMap(acc.merged, kind,
                           Spread(MapOf(acc.merged, kind), MapOf(group, kind))),
        tracked |-> WithMap(acc.tracked, kind, tr.tracked),
        warnings |-> tr.warnings]

\* break in place of continue: a missing group ends the loop.
RECURSIVE OverlayGroupsBreak(_, _, _, _)
OverlayGroupsBreak(acc, refs, i, groups) ==
  IF i > Len(refs) THEN acc
  ELSE
    LET g == refs[i]
        group == groups[g]
    IN IF Falsy(group)
       THEN [acc EXCEPT !.warnings = Append(@, MissingWarning(g))]
       ELSE OverlayGroupsBreak(
              OverlayKind(OverlayKind(acc, group, g, "dependencies"),
                          group, g, "devDependencies"),
              refs, i + 1, groups)

\* The loop over packageJson.depGroups.
RECURSIVE OverlayGroups(_, _, _, _)
OverlayGroups(acc, refs, i, groups) ==
  IF i > Len(refs) THEN acc
  ELSE
    LET g == refs[i]
        group == groups[g]
    IN IF Falsy(group)
       THEN OverlayGroups([acc EXCEPT !.warnings = Append(@, MissingWarning(g))],
                          refs, i + 1, groups)
       ELSE OverlayGroups(
              OverlayKind(OverlayKind(acc, group, g, "dependencies"),
                          group, g, "devDependencies"),
              refs, i + 1, groups)

\* The second sort left out: devDependencies keeps its insertion order.
SortBothDepsOnly(pkg) ==
  [pkg EXCEPT !.dependencies = SortKeys(pkg.dependencies)]

\* The two sorts that end mergeDepGroups.
SortBoth(pkg) ==
  [pkg EXCEPT !.dependencies = SortKeys(pkg.dependencies),
              !.devDependencies = SortKeys(pkg.devDependencies)]

\* mergeDepGroups without the early return of its first lines.
mergeDepGroupsNoReturn(packageJson, groups) ==
  [pkg |-> SortBoth([packageJson EXCEPT
                       !.dependencies = Spread(Absent, packageJson.dependencies),
                       !.devDependencies = Spread(Absent, packageJson.devDependencies)]),
   warnings |-> <<>>]

\* mergeDepGroups(packageJson, depGroups), with the warnings it prints.
\* groups is depGroups.groups, a mapping (never null here).
mergeDepGroups(packageJson, groups) ==
  IF NoGroupRefs(packageJson)
  THEN [pkg |-> packageJson, warnings |-> <<>>]
  ELSE
    LET start == [merged |-> [packageJson EXCEPT
                                !.dependencies = Spread(Absent, packageJson.dependencies),
                                !.devDependencies = Spread(Absent, packageJson.devDependencies)],
                  tracked |-> [dependencies |-> NoVersions, devDependencies |-> NoVersions],
                  warnings |-> <<>>]
        done == OverlayGroups(start, packageJson.depGroups.refs, 1, groups)
    IN [pkg |-> SortBoth(done.merged), warnings |-> done.warnings]

\* --------------------------------------------------------- registry file
\* The text of .dep-groups.yaml as the writer lays it out: one block per
\* group, each with its two sections; an empty section is not written.
Block(name, group) ==
  [name |-> name,
   dependencies |-> group.dependencies.e,
   devDependencies |-> group.devDependencies.e]

\* The comparator of the group sort: root first, standalone last.  The one
\* other group name needs no localeCompare.
GroupBefore(a, b) ==
  IF a = "root" THEN TRUE
  ELSE IF b = "root" THEN FALSE
  ELSE IF a = "standalone" THEN FALSE
  ELSE IF b = "standalone" THEN TRUE
  ELSE FALSE

RECURSIVE SetToSeq(_)
SetToSeq(S) ==
  IF S = {} THEN <<>>
  ELSE LET x == CHOOSE y \in S : TRUE IN <<x>> \o SetToSeq(S \ {x})

\* Object.keys(depGroups.groups).sort(...)
SortedGroupNames(groups) ==
  SortSeq(SetToSeq({g \in GroupNames : groups[g].st # "missing"}), GroupBefore)

\* yamlContent as built by the writer.
yamlContent(groups) ==
  LET names == SortedGroupNames(groups)
  IN [i \in DOMAIN names |-> Block(names[i], groups[names[i]])]

SectionMap(s) == IF Len(s) = 0 THEN Absent ELSE Obj(s)

RECURSIVE BlockIndex(_, _, _)
BlockIndex(doc, g, i) ==
  IF i > Len(doc) THEN 0
  ELSE IF doc[i].name = g THEN i
  ELSE BlockIndex(doc, g, i + 1)

ParseBlock(b) ==
  IF Len(b.dependencies) = 0 /\ Len(b.devDependencies) = 0 THEN NullGroup
  ELSE [st |-> "obj",
        dependencies |-> SectionMap(b.dependencies),
        devDependencies |-> SectionMap(b.devDependencies)]

\* yaml.parse(content): "groups:" with nothing under it is null, and so is a
\* group with nothing under it.
yamlParse(doc) ==
  [groupsNull |-> Len(doc) = 0,
   groups |-> [g \in GroupNames |->
                 IF BlockIndex(doc, g, 1) = 0 THEN MissingGroup
                 ELSE ParseBlock(doc[BlockIndex(doc, g, 1)])]]

NoFile == [exists |-> FALSE, doc |-> <<>>]

\* ------------------------------------------------------------------- sync
Updated(dep, kind, shown, version, g) ==
  [type |-> "updated", dep |-> dep, kind |-> kind, old |-> shown,
   version |-> version, group |-> g]

Added(dep, kind, version, g) ==
  [type |-> "added", dep |-> dep, kind |-> kind, old |-> 0,
   version |-> version, group |-> g]

\* New entries go to the first group the manifest references.
LandingGroupFirstRef(pkg) ==
  IF pkg.depGroups.present /\ Len(pkg.depGroups.refs) > 0 THEN pkg.depGroups.refs[1]
  ELSE IF pkg.isRoot THEN "root" ELSE "standalone"

\* isRootPkg ? 'root' : 'standalone'
LandingGroup(pkg) == IF pkg.isRoot THEN "root" ELSE "standalone"

\* A manifest file JSON.parse does not throw on.
ParseNeverThrows(pkg) == FALSE

\* JSON.parse(content) throws: the manifest file is not valid JSON.
ParseThrows(pkg) == ~pkg.valid

\* The first pass parses the manifests in turn and stops at the first one
\* with a non-empty depGroups: it throws when an unparseable one comes first.
FirstPassThrows(pkgs) ==
  \E i \in DOMAIN pkgs :
    /\ ParseThrows(pkgs[i])
    /\ \A j \in 1..(i - 1) : ParseThrows(pkgs[j]) \/ NoGroupRefs(pkgs[j])

\* packageJson.depGroups && packageJson.depGroups.length > 0, in any package
hasAnyDepGroups(pkgs) == \E i \in DOMAIN pkgs : ~NoGroupRefs(pkgs[i])

\* No manifest is ever skipped.
SkippedNever(pkg, anyRefs, fileExists) == FALSE

\* The skip decided without looking at the other manifests.
SkippedWhenFileExists(pkg, anyRefs, fileExists) == NoGroupRefs(pkg) /\ fileExists

Skipped(pkg, anyRefs, fileExists) == NoGroupRefs(pkg) /\ anyRefs /\ fileExists

targetGroups(pkg) ==
  IF ~NoGroupRefs(pkg) THEN pkg.depGroups.refs ELSE <<LandingGroup(pkg)>>

\* group.dependencies[dep] used as a condition: the map has the key and its
\* value is truthy.
Listed(map, dep) == Has(map, dep) /\ Get(map, dep) # EmptyVersion

\* The lookup that ignores isDevDep and looks under dependencies only.
RECURSIVE findGroupWithDepOneKind(_, _, _, _, _)
findGroupWithDepOneKind(groups, targets, dep, kind, i) ==
  IF i > Len(targets) THEN ""
  ELSE IF ~Falsy(groups[targets[i]]) /\ Listed(groups[targets[i]].dependencies, dep)
       THEN targets[i]
  ELSE findGroupWithDepOneKind(groups, targets, dep, kind, i + 1)

\* The lookup that keeps scanning and returns the last target group listing
\* the name.
RECURSIVE findGroupWithDepLast(_, _, _, _, _)
findGroupWithDepLast(groups, targets, dep, kind, i) ==
  IF i > Len(targets) THEN ""
  ELSE IF findGroupWithDepLast(groups, targets, dep, kind, i + 1) # ""
       THEN findGroupWithDepLast(groups, targets, dep, kind, i + 1)
  ELSE IF ~Falsy(groups[targets[i]]) /\ Listed(MapOf(groups[targets[i]], kind), dep)
       THEN targets[i]
  ELSE ""

RECURSIVE findGroupWithDep(_, _, _, _, _)
findGroupWithDep(groups, targets, dep, kind, i) ==
  IF i > Len(targets) THEN ""
  ELSE IF ~Falsy(groups[targets[i]]) /\ Listed(MapOf(groups[targets[i]], kind), dep)
       THEN targets[i]
  ELSE findGroupWithDep(groups, targets, dep, kind, i + 1)

\* The loop body that leaves a listed entry alone, whatever its version (only
\* names a group lacks are promoted).
SyncEntryNoUpdate(st, targets, kind, dep, version) ==
  IF st.err THEN st
  ELSE IF version = WorkspaceVersion THEN st
  ELSE IF st.groupsNull THEN [st EXCEPT !.err = TRUE]
  ELSE IF findGroupWithDep(st.groups, targets, dep, kind, 1) = ""
       THEN [st EXCEPT !.new = WithMap(@, kind, Put(MapOf(@, kind), dep, version))]
  ELSE st

\* The loop body without the workspace-protocol test.
SyncEntryNoSkip(st, targets, kind, dep, version) ==
  IF st.err THEN st
  ELSE IF st.groupsNull THEN [st EXCEPT !.err = TRUE]
  ELSE
    LET g == findGroupWithDep(st.groups, targets, dep, kind, 1)
    IN IF g = ""
       THEN [st EXCEPT !.new = WithMap(@, kind, Put(MapOf(@, kind), dep, version))]
       ELSE IF /\ MapOf(st.groups[g], kind).present
               /\ (~Has(MapOf(st.groups[g], kind), dep)
                     \/ Get(MapOf(st.groups[g], kind), dep) # version)
            THEN LET m == Put(MapOf(st.groups[g], kind), dep, version)
                 IN [st EXCEPT !.groups[g] = WithMap(@, kind, m),
                               !.updated = TRUE,
                               !.log = Append(@, Updated(dep, kind, Get(m, dep), version, g))]
            ELSE st

\* One iteration of the loop over Object.entries(packageJson[kind]).
\* st = [groups, groupsNull, updated, log, err, new]
SyncEntry(st, targets, kind, dep, version) ==
  IF st.err THEN st
  ELSE IF version = WorkspaceVersion THEN st
  ELSE IF st.groupsNull THEN [st EXCEPT !.err = TRUE]
  ELSE
    LET g == findGroupWithDep(st.groups, targets, dep, kind, 1)
    IN IF g = ""
       THEN [st EXCEPT !.new = WithMap(@, kind, Put(MapOf(@, kind), dep, version))]
       ELSE IF /\ MapOf(st.groups[g], kind).present
               /\ (~Has(MapOf(st.groups[g], kind), dep)
                     \/ Get(MapOf(st.groups[g], kind), dep) # version)
            THEN LET m == Put(MapOf(st.groups[g], kind), dep, version)
                 IN [st EXCEPT !.groups[g] = WithMap(@, kind, m),
                               !.updated = TRUE,
                               !.log = Append(@, Updated(dep, kind, Get(m, dep), version, g))]
            ELSE st

RECURSIVE SyncEntries(_, _, _, _, _)
SyncEntries(st, targets, kind, s, i) ==
  IF i > Len(s) THEN st
  ELSE SyncEntries(SyncEntry(st, targets, kind, s[i][1], s[i][2]),
                   targets, kind, s, i + 1)

\* The loop without its guard: every collected entry is assigned.
RECURSIVE AddNewUnguarded(_, _, _, _, _)
AddNewUnguarded(st, name, kind, s, i) ==
  IF i > Len(s) THEN st
  ELSE AddNewUnguarded([st EXCEPT
                 !.groups[name] = WithMap(@, kind, Put(MapOf(@, kind), s[i][1], s[i][2])),
                 !.updated = TRUE,
                 !.log = Append(@, Added(s[i][1], kind, s[i][2], name))],
              name, kind, s, i + 1)

\* The loop that adds the collected new entries of one kind to the landing
\* group.
RECURSIVE AddNew(_, _, _, _, _)
AddNew(st, name, kind, s, i) ==
  IF i > Len(s) THEN st
  ELSE IF Listed(MapOf(st.groups[name], kind), s[i][1])
       THEN AddNew(st, name, kind, s, i + 1)
  ELSE AddNew([st EXCEPT
                 !.groups[name] = WithMap(@, kind, Put(MapOf(@, kind), s[i][1], s[i][2])),
                 !.updated = TRUE,
                 !.log = Append(@, Added(s[i][1], kind, s[i][2], name))],
              name, kind, s, i + 1)

LandKind(st, name, kind) ==
  IF Len(MapOf(st.new, kind).e) = 0 THEN st
  ELSE AddNew(
         IF MapOf(st.groups[name], kind).present THEN st
         ELSE [st EXCEPT !.groups[name] = WithMap(@, kind, Obj(<<>>))],
         name, kind, MapOf(st.new, kind).e, 1)

\* The landing step that adds to the landing group only when it exists.
LandInExistingGroup(st, pkg) ==
  IF st.err THEN st
  ELSE IF Len(st.new.dependencies.e) = 0 /\ Len(st.new.devDependencies.e) = 0 THEN st
  ELSE IF Falsy(st.groups[LandingGroup(pkg)]) THEN st
  ELSE LandKind(LandKind(st, LandingGroup(pkg), "dependencies"),
                LandingGroup(pkg), "devDependencies")

Land(st, pkg) ==
  IF st.err THEN st
  ELSE IF Len(st.new.dependencies.e) = 0 /\ Len(st.new.devDependencies.e) = 0 THEN st
  ELSE
    LET name == LandingGroup(pkg)
        st1 == IF Falsy(st.groups[name])
               THEN [st EXCEPT !.groups[name] = EmptyGroup]
               ELSE st
    IN LandKind(LandKind(st1, name, "dependencies"), name, "devDependencies")

NoNew == [dependencies |-> Obj(<<>>), devDependencies |-> Obj(<<>>)]

\* The body of the second loop over packageFiles, for one manifest.
SyncPackage(st, pkg, anyRefs, fileExists) ==
  IF st.err THEN st
  ELSE IF ParseThrows(pkg) THEN [st EXCEPT !.err = TRUE]
  ELSE IF Skipped(pkg, anyRefs, fileExists) THEN st
  ELSE
    LET t == targetGroups(pkg)
        s0 == [st EXCEPT !.new = NoNew]
        s1 == SyncEntries(s0, t, "dependencies", pkg.dependencies.e, 1)
        s2 == SyncEntries(s1, t, "devDependencies", pkg.devDependencies.e, 1)
    IN Land(s2, pkg)

RECURSIVE SyncPackages(_, _, _, _, _)
SyncPackages(st, pkgs, i, anyRefs, fileExists) ==
  IF i > Len(pkgs) THEN st
  ELSE SyncPackages(SyncPackage(st, pkgs[i], anyRefs, fileExists),
                    pkgs, i + 1, anyRefs, fileExists)

\* The writer dereferences every group: a null group throws.
WriteThrows(st) == st.groupsNull \/ \E g \in GroupNames : st.groups[g].st = "null"

\* The registry sync starts from: the parsed file, or { groups: {} }.
LoadOrEmpty(file) ==
  IF file.exists THEN yamlParse(file.doc)
  ELSE [groupsNull |-> FALSE, groups |-> [g \in GroupNames |-> MissingGroup]]

SyncStart(loaded) ==
  [groups |-> loaded.groups, groupsNull |-> loaded.groupsNull,
   updated |-> FALSE, log |-> <<>>, err |-> FALSE, new |-> NoNew]

\* The state after the first loop over packageFiles.
FirstPass(st, pkgs) == IF FirstPassThrows(pkgs) THEN [st EXCEPT !.err = TRUE] ELSE st

\* updated || !fileExists
SyncWrites(file, st) == ~st.err /\ (st.updated \/ ~file.exists)

SyncThrows(file, st) == st.err \/ (SyncWrites(file, st) /\ WriteThrows(st))

\* The end of syncFromPackages: the file is rewritten when an entry changed
\* or the file did not exist.
SyncFinish(file, st) ==
  [file |-> IF SyncWrites(file, st) /\ ~SyncThrows(file, st)
            THEN [exists |-> TRUE, doc |-> yamlContent(st.groups)]
            ELSE file,
   mem |-> [groupsNull |-> st.groupsNull, groups |-> st.groups],
   log |-> st.log,
   wrote |-> SyncWrites(file, st) /\ ~SyncThrows(file, st),
   err |-> SyncThrows(file, st)]

\* syncFromPackages(rootDir): the registry file it leaves, the registry it
\* held in memory, what it printed and whether it threw.
syncFromPackages(file, pkgs) ==
  SyncFinish(file, SyncPackages(FirstPass(SyncStart(LoadOrEmpty(file)), pkgs), pkgs, 1,
                                hasAnyDepGroups(pkgs), file.exists))

\* --------------------------------------------------------------- generate
NoScript == [present |-> FALSE, cmds |-> <<>>]

\* A preinstall script: its commands, chained with " && ".  The empty
\* string is the one command "".
Script(cmds) == [present |-> TRUE, cmds |-> cmds]

generateCmd == "dependency-grouper generate"

\* The commands whose text contains 'dependency-grouper'.
ToolCmds == {generateCmd, "dependency-grouper sync"}

\* merged.scripts.preinstall.includes('dependency-grouper')
InvokesTool(script) == \E i \in DOMAIN script.cmds : script.cmds[i] \in ToolCmds

\* !merged.scripts.preinstall: undefined or the empty string
NoPreinstall(script) == ~script.present \/ script.cmds = <<"">>

\* The injection that appends whatever the script holds.
InjectPreinstallAlways(script) ==
  IF NoPreinstall(script) THEN Script(<<generateCmd>>)
  ELSE Script(Append(script.cmds, generateCmd))

\* The preinstall script after the injection step.
InjectPreinstall(script) ==
  IF NoPreinstall(script) THEN Script(<<generateCmd>>)
  ELSE IF ~InvokesTool(script) THEN Script(Append(script.cmds, generateCmd))
  ELSE script

\* depGroups present and an empty array: auto-populated.
AutoPopulate(pkg) ==
  IF pkg.depGroups.present /\ Len(pkg.depGroups.refs) = 0
  THEN [pkg EXCEPT !.depGroups = Refs(<<LandingGroup(pkg)>>)]
  ELSE pkg

\* The manifest written back without the merged maps.
WritePackageUnmerged(acc, i, m) ==
  [acc EXCEPT !.pkgs[i] = [@ EXCEPT !.depGroups = m.pkg.depGroups,
                                    !.preinstall = InjectPreinstall(@)],
              !.warnings = @ \o m.warnings,
              !.processed = @ + 1]

\* The end of the loop body: the merged manifest gets the preinstall script
\* and is written back.
WritePackage(acc, i, m) ==
  [acc EXCEPT !.pkgs[i] = [m.pkg EXCEPT !.preinstall = InjectPreinstall(@)],
              !.warnings = @ \o m.warnings,
              !.processed = @ + 1]

\* The loop body without the skip of manifests that have no group reference.
GeneratePackageNoSkip(acc, i, depGroups) ==
  IF acc.err THEN acc
  ELSE IF ParseThrows(acc.pkgs[i]) THEN [acc EXCEPT !.err = TRUE]
  ELSE IF depGroups.groupsNull /\ ~NoGroupRefs(AutoPopulate(acc.pkgs[i]))
       THEN [acc EXCEPT !.err = TRUE]
  ELSE WritePackage(acc, i, mergeDepGroups(AutoPopulate(acc.pkgs[i]), depGroups.groups))

\* The body of the loop over packageFiles in generateDependencies.
\* acc = [pkgs, warnings, processed, err]
GeneratePackage(acc, i, depGroups) ==
  IF acc.err THEN acc
  ELSE IF ParseThrows(acc.pkgs[i]) THEN [acc EXCEPT !.err = TRUE]
  ELSE IF NoGroupRefs(AutoPopulate(acc.pkgs[i])) THEN acc
  ELSE IF depGroups.groupsNull THEN [acc EXCEPT !.err = TRUE]
  ELSE WritePackage(acc, i, mergeDepGroups(AutoPopulate(acc.pkgs[i]), depGroups.groups))

RECURSIVE GeneratePackages(_, _, _)
GeneratePackages(acc, i, depGroups) ==
  IF i > Len(acc.pkgs) THEN acc
  ELSE GeneratePackages(GeneratePackage(acc, i, depGroups), i + 1, depGroups)

GenerateFinish(s, depGroups, g) ==
  [file |-> s.file, pkgs |-> g.pkgs, sync |-> s, loaded |-> depGroups,
   warnings |-> g.warnings, processed |-> g.processed, err |-> g.err]

\* Step 2 of generateDependencies on the registry loaded from the file.
MergeLoaded(s, depGroups, pkgs) ==
  GenerateFinish(s, depGroups,
                 GeneratePackages([pkgs |-> pkgs, warnings |-> <<>>, processed |-> 0,
                                   err |-> FALSE], 1, depGroups))

\* Step 2 of generateDependencies, reached when sync did not throw.
MergeAfterSync(s, pkgs) ==
  IF s.err
  THEN [file |-> s.file, pkgs |-> pkgs, sync |-> s, loaded |-> s.mem,
        warnings |-> <<>>, processed |-> 0, err |-> TRUE]
  ELSE MergeLoaded(s, yamlParse(s.file.doc), pkgs)

\* The merge run against the registry as it was before the sync step.
generateDependenciesStale(file, pkgs) ==
  MergeLoaded(syncFromPackages(file, pkgs), LoadOrEmpty(file), pkgs)

\* generateDependencies(rootDir): sync, reload, merge and write.
generateDependencies(file, pkgs) ==
  MergeAfterSync(syncFromPackages(file, pkgs), pkgs)

\* ------------------------------------------------------------ command line
\* process.argv[2]: undefined when the tool is run without an argument.
NoArg == [present |-> FALSE, text |-> ""]

Arg(text) == [present |-> TRUE, text |-> text]

\* The exit status of generate and sync: 1 from process.exit(1) in the catch
\* block, 0 when the script runs to its end.
CommandExit(err) == IF err THEN 1 ELSE 0

\* Usage exits 0 whatever the argument.
UsageExitZero(command) == 0

\* process.exit(command ? 1 : 0)
UsageExit(command) == IF command.present /\ command.text # "" THEN 1 ELSE 0

\* ------------------------------------------------------------------ state
VARIABLES
  regFile,     \* .dep-groups.yaml: whether it exists and its text
  manifests,   \* the package.json files, in discovery order
  start,       \* the files as they were before the first command
  ops,         \* the commands run so far
  pre,         \* the files as they were before the last command
  out,         \* what the last command did and printed
  mergeIn,     \* a manifest and a registry handed to mergeDepGroups
  mergeOut     \* the results of merging once and of merging the result again

vars == <<regFile, manifests, start, ops, pre, out, mergeIn, mergeOut>>

Pkgs == 1..NumPkgs

\* ----------------------------------------------------- bounded workspaces
EntriesOf(owners, versions) ==
  UNION {[owner : owners, kind : {k}, dep : NamesOf(k), version : versions] : k \in Kinds}

ManifestEntries == EntriesOf(Pkgs, Versions)

RegistryEntries == EntriesOf(GroupNames, RegistryVersions)

SeqsUpTo(S, n) == UNION {[1..k -> S] : k \in 0..n}

UniqueSlots(es) ==
  \A i, j \in DOMAIN es :
    (es[i].owner = es[j].owner /\ es[i].kind = es[j].kind /\ es[i].dep = es[j].dep)
      => i = j

\* The map of one owner and kind: its entries, in the order they were listed.
MapFrom(es, owner, kind) ==
  LET sel == SelectSeq(es, LAMBDA x : x.owner = owner /\ x.kind = kind)
  IN IF Len(sel) = 0 THEN Absent
     ELSE Obj([i \in DOMAIN sel |-> <<sel[i].dep, sel[i].version>>])

GroupFrom(es, g) ==
  IF \E i \in DOMAIN es : es[i].owner = g
  THEN [st |-> "obj",
        dependencies |-> MapFrom(es, g, "dependencies"),
        devDependencies |-> MapFrom(es, g, "devDependencies")]
  ELSE MissingGroup

GroupsFrom(es) == [g \in GroupNames |-> GroupFrom(es, g)]

RefChoicesOver(names, n) == {NoRefs} \cup {Refs(s) : s \in SeqsUpTo(names, n)}

RefChoices(n) == RefChoicesOver(GroupNames, n)

ManifestFrom(es, p, refs, root) ==
  [isRoot |-> root,
   valid |-> TRUE,
   depGroups |-> refs,
   dependencies |-> MapFrom(es, p, "dependencies"),
   devDependencies |-> MapFrom(es, p, "devDependencies"),
   preinstall |-> NoScript]

TotalRefs(r) ==
  LET RECURSIVE Sum(_)
      Sum(i) == IF i > NumPkgs THEN 0 ELSE Len(r[i].refs) + Sum(i + 1)
  IN Sum(1)

FileFrom(es) ==
  IF Len(es) = 0 THEN NoFile
  ELSE [exists |-> TRUE, doc |-> yamlContent(GroupsFrom(es))]

NoOut ==
  [op |-> "", err |-> FALSE, log |-> <<>>, warnings |-> <<>>, processed |-> 0,
   wrote |-> FALSE, mem |-> [groupsNull |-> FALSE, groups |-> GroupsFrom(<<>>)],
   loaded |-> [groupsNull |-> FALSE, groups |-> GroupsFrom(<<>>)],
   edit |-> <<>>, prevErr |-> FALSE,
   arg |-> [present |-> FALSE, text |-> ""], exit |-> 0, usage |-> FALSE,
   stderr |-> FALSE]

NoMerge ==
  [pkg |-> ManifestFrom(<<>>, 1, NoRefs, FALSE), groups |-> GroupsFrom(<<>>)]

\* A workspace on disk: at most MaxEntries dependency entries in all, at most
\* MaxRefs group references in all; the first manifest is the one in the
\* workspace root directory.  The registry file exists when it has an entry.
InitWorkspace ==
  \E me \in {s \in SeqsUpTo(ManifestEntries, MaxEntries) : UniqueSlots(s)} :
  \E re \in {s \in SeqsUpTo(RegistryEntries, MaxEntries - Len(me)) : UniqueSlots(s)} :
  \E refs \in {r \in [Pkgs -> RefChoices(MaxRefs)] :
                  TotalRefs(r) <= MaxRefs /\ Len(r[1].refs) <= MaxRootRefs} :
    /\ regFile = FileFrom(re)
    /\ manifests = [p \in Pkgs |-> ManifestFrom(me, p, refs[p], p = 1)]

Init ==
  /\ InitWorkspace
  /\ start = [regFile |-> regFile, manifests |-> manifests]
  /\ ops = <<>>
  /\ pre = [regFile |-> regFile, manifests |-> manifests]
  /\ out = NoOut
  /\ mergeIn = NoMerge
  /\ mergeOut = <<>>

\* ---------------------------------------------------------------- actions
Snapshot == [regFile |-> regFile, manifests |-> manifests]

\* A sync command that also writes the auto-populated depGroups back.
SyncWritingManifests ==
  /\ Len(ops) < MaxRuns
  /\ \E s \in {syncFromPackages(regFile, manifests)} :
        /\ regFile' = s.file
        /\ out' = [NoOut EXCEPT !.op = "sync", !.err = s.err, !.log = s.log,
                                !.wrote = s.wrote, !.mem = s.mem,
                                !.edit = out.edit, !.prevErr = out.err,
                                !.arg = Arg("sync"), !.exit = CommandExit(s.err),
                                !.stderr = s.err]
  /\ manifests' = [p \in Pkgs |-> AutoPopulate(manifests[p])]
  /\ ops' = Append(ops, "sync")
  /\ pre' = Snapshot
  /\ UNCHANGED <<start, mergeIn, mergeOut>>

\* dependency-grouper sync
Sync ==
  /\ Len(ops) < MaxRuns
  /\ \E s \in {syncFromPackages(regFile, manifests)} :
        /\ regFile' = s.file
        /\ out' = [NoOut EXCEPT !.op = "sync", !.err = s.err, !.log = s.log,
                                !.wrote = s.wrote, !.mem = s.mem,
                                !.edit = out.edit, !.prevErr = out.err,
                                !.arg = Arg("sync"), !.exit = CommandExit(s.err),
                                !.stderr = s.err]
  /\ ops' = Append(ops, "sync")
  /\ pre' = Snapshot
  /\ UNCHANGED <<manifests, start, mergeIn, mergeOut>>

\* dependency-grouper generate
Generate ==
  /\ Len(ops) < MaxRuns
  /\ \E g \in {generateDependencies(regFile, manifests)} :
        /\ regFile' = g.file
        /\ manifests' = g.pkgs
        /\ out' = [NoOut EXCEPT !.op = "generate", !.err = g.err, !.log = g.sync.log,
                                !.wrote = g.sync.wrote, !.mem = g.sync.mem,
                                !.loaded = g.loaded,
                                !.warnings = g.warnings, !.processed = g.processed,
                                !.edit = out.edit, !.prevErr = out.err,
                                !.arg = Arg("generate"), !.exit = CommandExit(g.err),
                                !.stderr = g.err]
  /\ ops' = Append(ops, "generate")
  /\ pre' = Snapshot
  /\ UNCHANGED <<start, mergeIn, mergeOut>>

\* A maintainer edits the version of one entry of the registry file by hand,
\* before running the tool.
EditRegistry ==
  /\ ops = <<>>
  /\ regFile.exists
  /\ \E b \in DOMAIN regFile.doc, kind \in Kinds, v \in RegistryVersions :
       \E i \in DOMAIN regFile.doc[b][kind] :
         /\ regFile.doc[b][kind][i][2] # v
         /\ regFile' = [regFile EXCEPT !.doc[b][kind][i] = <<@[1], v>>]
         /\ out' = [NoOut EXCEPT !.op = "edit",
                                 !.edit = <<[group |-> regFile.doc[b].name, kind |-> kind,
                                             dep |-> regFile.doc[b][kind][i][1],
                                             version |-> v]>>]
  /\ ops' = Append(ops, "edit")
  /\ pre' = Snapshot
  /\ UNCHANGED <<manifests, start, mergeIn, mergeOut>>

Next == Sync \/ Generate \/ EditRegistry

Spec == Init /\ [][Next]_vars

\* ------------------------------------------- mergeDepGroups on its own
MergeManifestEntries ==
  [owner : {1}, kind : Kinds, dep : DepNames, version : RegistryVersions]

MergeRegistryEntries ==
  [owner : GroupNames, kind : Kinds, dep : DepNames, version : RegistryVersions]

\* A manifest and a registry object as a caller hands them to
\* mergeDepGroups: at most MaxMergeEntries entries in all.
InitMerge ==
  /\ \E me \in {s \in SeqsUpTo(MergeManifestEntries, MaxMergeEntries) : UniqueSlots(s)} :
     \E re \in {s \in SeqsUpTo(MergeRegistryEntries, MaxMergeEntries - Len(me)) :
                   UniqueSlots(s)} :
     \E refs \in RefChoices(MaxMergeRefs) :
       /\ mergeIn = [pkg |-> ManifestFrom(me, 1, refs, FALSE), groups |-> GroupsFrom(re)]
  /\ mergeOut = <<>>
  /\ regFile = NoFile
  /\ manifests = [p \in Pkgs |-> ManifestFrom(<<>>, p, NoRefs, p = 1)]
  /\ start = [regFile |-> regFile, manifests |-> manifests]
  /\ ops = <<>>
  /\ pre = [regFile |-> regFile, manifests |-> manifests]
  /\ out = NoOut

\* mergeDepGroups(m, r)
MergeOnce ==
  /\ Len(mergeOut) = 0
  /\ mergeOut' = <<mergeDepGroups(mergeIn.pkg, mergeIn.groups)>>
  /\ UNCHANGED <<regFile, manifests, start, ops, pre, out, mergeIn>>

\* mergeDepGroups(mergeDepGroups(m, r), r)
MergeAgain ==
  /\ Len(mergeOut) = 1
  /\ mergeOut' = Append(mergeOut, mergeDepGroups(mergeOut[1].pkg, mergeIn.groups))
  /\ UNCHANGED <<regFile, manifests, start, ops, pre, out, mergeIn>>

NextMerge == MergeOnce \/ MergeAgain

SpecMerge == InitMerge /\ [][NextMerge]_vars

\* --------------------------------------------------- syncFromPackages alone
\* A workspace whose entries all belong to one manifest outside the root
\* directory and to the groups it can reach: at most MaxSyncEntries entries.
\* The root manifest declares nothing.
SyncGroups == {"shared", "standalone"}

InitOneManifest ==
  \E me \in {s \in SeqsUpTo(EntriesOf({NumPkgs}, Versions), MaxSyncEntries) :
               UniqueSlots(s)} :
  \E re \in {s \in SeqsUpTo(EntriesOf(SyncGroups, RegistryVersions),
                             MaxSyncEntries - Len(me)) : UniqueSlots(s)} :
  \E refs \in RefChoicesOver(SyncGroups, MaxRefs) :
    /\ regFile = FileFrom(re)
    /\ manifests = [p \in Pkgs |->
                      IF p = NumPkgs THEN ManifestFrom(me, p, refs, p = 1)
                      ELSE ManifestFrom(<<>>, p, NoRefs, p = 1)]

InitSync ==
  /\ InitWorkspace \/ InitOneManifest
  /\ start = [regFile |-> regFile, manifests |-> manifests]
  /\ ops = <<>>
  /\ pre = [regFile |-> regFile, manifests |-> manifests]
  /\ out = NoOut
  /\ mergeIn = NoMerge
  /\ mergeOut = <<>>

NextSync == Sync

SpecSync == InitSync /\ [][NextSync]_vars

\* ------------------------------------------- generate and the install hook
\* The preinstall scripts a manifest may come with: none, the empty string,
\* another command, the tool's own command, and a chain that runs the tool.
HookScripts ==
  {NoScript, Script(<<"">>), Script(<<"build">>), Script(<<generateCmd>>),
   Script(<<"build", "dependency-grouper sync">>)}

\* A workspace of at most MaxHookEntries entries whose manifests come with
\* any of these scripts.
InitHook ==
  /\ \E me \in {s \in SeqsUpTo(ManifestEntries, MaxHookEntries) : UniqueSlots(s)} :
     \E re \in {s \in SeqsUpTo(RegistryEntries, MaxHookEntries - Len(me)) : UniqueSlots(s)} :
     \E refs \in {r \in [Pkgs -> RefChoices(MaxRefs)] :
                     TotalRefs(r) <= MaxRefs /\ Len(r[1].refs) <= MaxRootRefs} :
     \E scripts \in [Pkgs -> HookScripts] :
       /\ regFile = FileFrom(re)
       /\ manifests = [p \in Pkgs |->
                         [ManifestFrom(me, p, refs[p], p = 1)
                            EXCEPT !.preinstall = scripts[p]]]
  /\ start = [regFile |-> regFile, manifests |-> manifests]
  /\ ops = <<>>
  /\ pre = [regFile |-> regFile, manifests |-> manifests]
  /\ out = NoOut
  /\ mergeIn = NoMerge
  /\ mergeOut = <<>>

NextHook == Generate

SpecHook == InitHook /\ [][NextHook]_vars

\* ------------------------------------------------------- the command line
\* A workspace of at most MaxCliEntries entries; its registry file may be the
\* one a run that promoted nothing left, holding the line "groups:" alone.
InitCli ==
  /\ \E me \in {s \in SeqsUpTo(ManifestEntries, MaxCliEntries) : UniqueSlots(s)} :
     \E re \in {s \in SeqsUpTo(RegistryEntries, MaxCliEntries - Len(me)) : UniqueSlots(s)} :
     \E refs \in {r \in [Pkgs -> RefChoices(MaxRefs)] :
                     TotalRefs(r) <= MaxRefs /\ Len(r[1].refs) <= MaxRootRefs} :
       /\ regFile \in {FileFrom(re)}
                        \cup {[exists |-> TRUE, doc |-> <<>>] : x \in {y \in {0} : Len(re) = 0}}
       /\ manifests = [p \in Pkgs |-> ManifestFrom(me, p, refs[p], p = 1)]
  /\ start = [regFile |-> regFile, manifests |-> manifests]
  /\ ops = <<>>
  /\ pre = [regFile |-> regFile, manifests |-> manifests]
  /\ out = NoOut
  /\ mergeIn = NoMerge
  /\ mergeOut = <<>>

\* generate or sync run where findWorkspaceRoot returns null: no registry
\* file and no workspace marker in any enclosing directory.
NoRoot ==
  /\ Len(ops) < MaxRuns
  /\ ~regFile.exists
  /\ \E command \in {"generate", "sync"} :
       out' = [NoOut EXCEPT !.op = "noroot", !.arg = Arg(command), !.err = TRUE,
                            !.exit = CommandExit(TRUE), !.stderr = TRUE]
  /\ ops' = Append(ops, "noroot")
  /\ pre' = Snapshot
  /\ UNCHANGED <<regFile, manifests, start, mergeIn, mergeOut>>

\* The tool run with no argument, or with one that is no command.
Usage ==
  /\ Len(ops) < MaxRuns
  /\ \E command \in {NoArg, Arg(""), Arg("help")} :
       out' = [NoOut EXCEPT !.op = "usage", !.arg = command, !.usage = TRUE,
                            !.exit = UsageExit(command)]
  /\ ops' = Append(ops, "usage")
  /\ pre' = Snapshot
  /\ UNCHANGED <<regFile, manifests, start, mergeIn, mergeOut>>

NextCli == Sync \/ Generate \/ NoRoot \/ Usage

SpecCli == InitCli /\ [][NextCli]_vars

\* ======================================================== mergeDepGroups
Merged == mergeOut[1].pkg

IsSorted(m) == \A i, j \in DOMAIN m.e : i < j => m.e[i][1] < m.e[j][1]

Existing(g) == ~Falsy(mergeIn.groups[g])

\* The referenced groups that exist and define dep under kind, as positions
\* in the manifest's depGroups.
Definers(dep, kind) ==
  {i \in DOMAIN mergeIn.pkg.depGroups.refs :
     /\ Existing(mergeIn.pkg.depGroups.refs[i])
     /\ Has(MapOf(mergeIn.groups[mergeIn.pkg.depGroups.refs[i]], kind), dep)}

Max(S) == CHOOSE x \in S : \A y \in S : y <= x

Count(s, x) == Cardinality({i \in DOMAIN s : s[i] = x})

\* C1: merging the result of a merge again, against the same registry, gives
\* the same manifest: the same dependencies and devDependencies in the same
\* key order, and the same other fields.
MergeIdempotent ==
  Len(mergeOut) = 2 => mergeOut[2].pkg = mergeOut[1].pkg

\* C1 witness: a merge that changed the manifest (a group overrode one of its
\* versions and its keys were reordered) has been merged a second time.
MergeIdempotentWitness ==
  /\ Len(mergeOut) = 2
  /\ \E d \in DepNames :
       /\ Has(mergeIn.pkg.dependencies, d)
       /\ Get(mergeIn.pkg.dependencies, d) # Get(Merged.dependencies, d)
  /\ KeySeq(mergeIn.pkg.dependencies) # KeySeq(Merged.dependencies)

\* C2: a manifest referencing exactly [A, B], both existing and both defining
\* x under the same kind at different versions, is merged with x at B's
\* version, and exactly one conflict warning is printed for x under that kind:
\* the one naming A's version, A, B's version and B.
GroupOverlayPrecedence ==
  Len(mergeOut) >= 1 =>
    \A kind \in Kinds, x \in DepNames :
      LET refs == mergeIn.pkg.depGroups.refs
      IN (/\ Len(refs) = 2
          /\ Definers(x, kind) = {1, 2}
          /\ Get(MapOf(mergeIn.groups[refs[1]], kind), x)
               # Get(MapOf(mergeIn.groups[refs[2]], kind), x))
         => LET vA == Get(MapOf(mergeIn.groups[refs[1]], kind), x)
                vB == Get(MapOf(mergeIn.groups[refs[2]], kind), x)
                w == ConflictWarning(x, kind, [version |-> vA, group |-> refs[1]],
                                     refs[2], vB)
            IN /\ Has(MapOf(Merged, kind), x)
               /\ Get(MapOf(Merged, kind), x) = vB
               /\ Count(mergeOut[1].warnings, w) = 1
               /\ \A i \in DOMAIN mergeOut[1].warnings :
                    LET u == mergeOut[1].warnings[i]
                    IN (u.type = "conflict" /\ u.dep = x /\ u.kind = kind) => u = w

\* C2 witness: such a manifest has been merged, and it declared x itself at
\* A's version.
GroupOverlayPrecedenceWitness ==
  /\ Len(mergeOut) >= 1
  /\ \E x \in DepNames :
       /\ Len(mergeIn.pkg.depGroups.refs) = 2
       /\ Definers(x, "dependencies") = {1, 2}
       /\ Has(mergeIn.pkg.dependencies, x)
       /\ Get(mergeIn.groups[mergeIn.pkg.depGroups.refs[1]].dependencies, x)
            = Get(mergeIn.pkg.dependencies, x)
       /\ Get(mergeIn.groups[mergeIn.pkg.depGroups.refs[2]].dependencies, x)
            # Get(mergeIn.pkg.dependencies, x)

\* C3 as stated: whatever the manifest and the registry, the manifest that
\* merge returns has the keys of both maps in strictly ascending order.
SortInvariantAllManifests ==
  Len(mergeOut) >= 1 =>
    IsSorted(Merged.dependencies) /\ IsSorted(Merged.devDependencies)

\* C3: for a manifest with at least one group reference, the manifest that
\* merge returns has the keys of dependencies and of devDependencies each in
\* strictly ascending order.
SortInvariant ==
  (Len(mergeOut) >= 1 /\ ~NoGroupRefs(mergeIn.pkg)) =>
    IsSorted(Merged.dependencies) /\ IsSorted(Merged.devDependencies)

\* C3 witness: a manifest with group references whose own devDependencies
\* were out of order, and whose dependencies got a key from a group, has been
\* merged.
SortInvariantWitness ==
  /\ Len(mergeOut) >= 1
  /\ ~NoGroupRefs(mergeIn.pkg)
  /\ ~IsSorted(mergeIn.pkg.devDependencies)
  /\ Len(Merged.dependencies.e) > Len(mergeIn.pkg.dependencies.e)

MergePreservesManifestDeps ==
  Len(mergeOut) >= 1 =>
    \A kind \in Kinds, x \in DepNames :
      Has(MapOf(mergeIn.pkg, kind), x) =>
        /\ Has(MapOf(Merged, kind), x)
        /\ Definers(x, kind) = {}
             => Get(MapOf(Merged, kind), x) = Get(MapOf(mergeIn.pkg, kind), x)

\* C12 witness: a manifest declaring x, which no referenced group defines,
\* and y, which a referenced group defines at another version, has been
\* merged.
MergePreservesManifestDepsWitness ==
  /\ Len(mergeOut) >= 1
  /\ \E x, y \in DepNames :
       /\ x # y
       /\ Has(mergeIn.pkg.dependencies, x)
       /\ Definers(x, "dependencies") = {}
       /\ Has(mergeIn.pkg.dependencies, y)
       /\ Definers(y, "dependencies") # {}
       /\ Get(Merged.dependencies, y) # Get(mergeIn.pkg.dependencies, y)

\* C13: a manifest whose depGroups is absent or empty is returned by merge as
\* it was given, key order included, whatever the registry holds, and no
\* warning is printed.
MergeIdentityOnNonParticipants ==
  (Len(mergeOut) >= 1 /\ NoGroupRefs(mergeIn.pkg)) =>
    /\ Merged = mergeIn.pkg
    /\ mergeOut[1].warnings = <<>>

\* C13 witness: a manifest with an empty depGroups, its dependencies out of
\* order and no devDependencies, has been merged against a registry that
\* has a group with an entry.
MergeIdentityOnNonParticipantsWitness ==
  /\ Len(mergeOut) >= 1
  /\ mergeIn.pkg.depGroups = Refs(<<>>)
  /\ ~IsSorted(mergeIn.pkg.dependencies)
  /\ ~mergeIn.pkg.devDependencies.present
  /\ \E g \in GroupNames : Existing(g)

\* ====================================================== syncFromPackages
NoGroups == [g \in GroupNames |-> MissingGroup]

ParsedGroups(file) == IF file.exists THEN yamlParse(file.doc).groups ELSE NoGroups

\* The registry as the file held it before the last command, and as the file
\* holds it now.
PreReg == ParsedGroups(pre.regFile)

PostReg == ParsedGroups(regFile)

\* A sync run has just ended (generate begins with one).
SyncRan == out.op \in {"sync", "generate"}

\* What sync decided for manifest p.
SkippedBySync(p) ==
  Skipped(pre.manifests[p], hasAnyDepGroups(pre.manifests), pre.regFile.exists)

\* <<version>> if the group lists dep under kind, <<>> if not.
EntryIn(groups, g, kind, dep) ==
  IF Has(MapOf(groups[g], kind), dep) THEN <<Get(MapOf(groups[g], kind), dep)>> ELSE <<>>

Declares(p, kind, dep) == Has(MapOf(pre.manifests[p], kind), dep)

Declared(p, kind, dep) == Get(MapOf(pre.manifests[p], kind), dep)

\* The first target group of p that listed dep under kind before the run.
FirstGroupWith(p, kind, dep) ==
  findGroupWithDep(PreReg, targetGroups(pre.manifests[p]), dep, kind, 1)

OnlyDeclarer(p, kind, dep) == \A q \in Pkgs \ {p} : ~Declares(q, kind, dep)

WorkspaceProtocolExclusion ==
  SyncRan =>
    /\ \A i \in DOMAIN out.log : out.log[i].version # WorkspaceVersion
    /\ \A g \in GroupNames, kind \in Kinds, x \in DepNames :
         /\ EntryIn(PostReg, g, kind, x) # <<WorkspaceVersion>>
         /\ EntryIn(out.mem.groups, g, kind, x) # <<WorkspaceVersion>>
         /\ ((\E p \in Pkgs : Declares(p, kind, x))
               /\ (\A p \in Pkgs : Declares(p, kind, x)
                                     => Declared(p, kind, x) = WorkspaceVersion))
            => /\ EntryIn(PostReg, g, kind, x) = EntryIn(PreReg, g, kind, x)
               /\ EntryIn(out.mem.groups, g, kind, x) = EntryIn(PreReg, g, kind, x)

\* C7 witness: sync has processed a manifest declaring x at a workspace
\* version while one of its target groups lists x, and has promoted another
\* of its entries.
WorkspaceProtocolExclusionWitness ==
  /\ out.op = "sync"
  /\ out.wrote
  /\ \E p \in Pkgs, kind \in Kinds, x \in DepNames :
       /\ ~SkippedBySync(p)
       /\ Declares(p, kind, x)
       /\ Declared(p, kind, x) = WorkspaceVersion
       /\ FirstGroupWith(p, kind, x) # ""
       /\ \E i \in DOMAIN out.log : out.log[i].type = "added"

Landing == {"root", "standalone"}

SyncIsOneWay ==
  out.op = "sync" => manifests = pre.manifests

\* C14 witness: a sync run has written the registry file in a workspace with
\* a manifest whose depGroups is an empty array and which declares a
\* dependency.
SyncIsOneWayWitness ==
  /\ out.op = "sync"
  /\ out.wrote
  /\ regFile # pre.regFile
  /\ \E p \in Pkgs :
       /\ pre.manifests[p].depGroups = Refs(<<>>)
       /\ pre.manifests[p].dependencies.present

SomeManifestHasRefs == \E q \in Pkgs : ~NoGroupRefs(pre.manifests[q])

\* The manifests before the run, p's without its dependencies.
WithoutDepsOf(p) ==
  [pre.manifests EXCEPT ![p].dependencies = Absent, ![p].devDependencies = Absent]

\* C17: when the registry file existed before the run and some manifest has a
\* non-empty depGroups, a manifest with absent or empty depGroups has no
\* effect on the run: the registry file, the registry in memory and the
\* additions and updates printed are those of the same run on the workspace
\* in which that manifest declares nothing.
OptOutFromSync ==
  (out.op = "sync" /\ pre.regFile.exists /\ SomeManifestHasRefs) =>
    \A p \in Pkgs :
      NoGroupRefs(pre.manifests[p]) =>
        \A h \in {syncFromPackages(pre.regFile, WithoutDepsOf(p))} :
           /\ regFile = h.file
           /\ out.mem = h.mem
           /\ out.log = h.log
           /\ out.err = h.err

\* C17 witness: sync has run on an existing registry file, another manifest
\* referencing a group, while a manifest without depGroups declared x at a
\* version other than the one its landing group records.
OptOutFromSyncWitness ==
  /\ out.op = "sync"
  /\ pre.regFile.exists
  /\ SomeManifestHasRefs
  /\ \E p \in Pkgs, x \in DepNames :
       /\ NoGroupRefs(pre.manifests[p])
       /\ Declares(p, "dependencies", x)
       /\ Declared(p, "dependencies", x) # WorkspaceVersion
       /\ EntryIn(PreReg, LandingGroup(pre.manifests[p]), "dependencies", x) # <<>>
       /\ EntryIn(PreReg, LandingGroup(pre.manifests[p]), "dependencies", x)
            # <<Declared(p, "dependencies", x)>>

\* C18: a manifest with absent or empty depGroups is synced against its
\* landing group (root for the root manifest, standalone for any other)
\* exactly when no manifest has a non-empty depGroups or the registry file did
\* not exist before the run.  Then each of its dependencies that is no
\* workspace specifier is listed by the landing group after the run, at the
\* manifest's version when no other manifest declares it; otherwise the
\* entries of the names only it declares are, in every group, as before.
BootstrapModeCondition ==
  out.op = "sync" =>
    \A p \in Pkgs, kind \in Kinds, x \in DepNames :
      (NoGroupRefs(pre.manifests[p]) /\ Declares(p, kind, x)) =>
        IF ~SomeManifestHasRefs \/ ~pre.regFile.exists
        THEN Declared(p, kind, x) # WorkspaceVersion =>
               /\ EntryIn(PostReg, LandingGroup(pre.manifests[p]), kind, x) # <<>>
               /\ OnlyDeclarer(p, kind, x) =>
                    EntryIn(PostReg, LandingGroup(pre.manifests[p]), kind, x)
                      = <<Declared(p, kind, x)>>
        ELSE OnlyDeclarer(p, kind, x) =>
               \A g \in GroupNames : EntryIn(PostReg, g, kind, x) = EntryIn(PreReg, g, kind, x)

\* C18 witness: with no registry file and another manifest referencing a
\* group, sync has put a dependency of a manifest without depGroups in that
\* manifest's landing group.
BootstrapModeConditionWitness ==
  /\ out.op = "sync"
  /\ ~pre.regFile.exists
  /\ SomeManifestHasRefs
  /\ \E p \in Pkgs, kind \in Kinds, x \in DepNames :
       /\ NoGroupRefs(pre.manifests[p])
       /\ Declares(p, kind, x)
       /\ EntryIn(PostReg, LandingGroup(pre.manifests[p]), kind, x)
            = <<Declared(p, kind, x)>>

\* ================================================== generateDependencies
\* The position of the last reference to group g in the depGroups of the
\* manifest p had before the run, 0 if there is none.
LastRefTo(p, g) ==
  LET refs == pre.manifests[p].depGroups.refs
      at == {i \in DOMAIN refs : refs[i] = g}
  IN IF at = {} THEN 0 ELSE Max(at)

EditedGroupIsReferenced ==
  \E p \in Pkgs : LastRefTo(p, out.edit[1].group) > 0

\* C4 as stated: after a maintainer has edited the version of an entry of a
\* registry group that some manifest references and generate has run, the
\* group still records the edited version, and every manifest that references
\* the group, with no later reference to a group listing the name, has the
\* name at the edited version.
VersionUpdateThroughRegistry ==
  (ops = <<"edit", "generate">> /\ EditedGroupIsReferenced) =>
    LET e == out.edit[1]
    IN /\ EntryIn(PostReg, e.group, e.kind, e.dep) = <<e.version>>
       /\ \A p \in Pkgs :
            (/\ LastRefTo(p, e.group) > 0
             /\ \A j \in DOMAIN pre.manifests[p].depGroups.refs :
                  j > LastRefTo(p, e.group)
                    => EntryIn(PreReg, pre.manifests[p].depGroups.refs[j], e.kind, e.dep) = <<>>)
            => /\ Has(MapOf(manifests[p], e.kind), e.dep)
               /\ Get(MapOf(manifests[p], e.kind), e.dep) = e.version

\* C5 as stated: a generate run that follows a completed generate run leaves
\* the registry file and every manifest file as the first run left them.
GenerateIdempotent ==
  (ops = <<"generate", "generate">> /\ ~out.prevErr) =>
    /\ regFile = pre.regFile
    /\ manifests = pre.manifests

Bootstrapping ==
  /\ ~start.regFile.exists
  /\ \A p \in Pkgs : start.manifests[p].depGroups = Refs(<<>>)

\* C8 as stated: from a workspace with no registry file whose manifests all
\* have an empty depGroups, sync and then generate leave every dependency that
\* is no workspace specifier in the landing group of its manifest, under the
\* kind it was declared, and every manifest with depGroups naming its landing
\* group.
BootstrapLanding ==
  (ops = <<"sync", "generate">> /\ Bootstrapping) =>
    \A p \in Pkgs :
      /\ manifests[p].depGroups = Refs(<<LandingGroup(start.manifests[p])>>)
      /\ \A kind \in Kinds, x \in DepNames :
           (Has(MapOf(start.manifests[p], kind), x)
              /\ Get(MapOf(start.manifests[p], kind), x) # WorkspaceVersion)
           => EntryIn(PostReg, LandingGroup(start.manifests[p]), kind, x) # <<>>

\* A generate run has just ended without a fatal error.
GenerateCompleted == out.op = "generate" /\ ~out.err

\* The positions in p's depGroups, as written, of the groups that list dep
\* under kind in the registry file.
PostDefiners(p, kind, dep) ==
  {i \in DOMAIN manifests[p].depGroups.refs :
     Has(MapOf(PostReg[manifests[p].depGroups.refs[i]], kind), dep)}

\* C11: after a generate run that completed, each manifest with a non-empty
\* depGroups has, for every name that a referenced group of the registry
\* file lists under a kind, that name under that kind, at the version of the
\* last referenced group listing it.
PostGenerateConsistency ==
  GenerateCompleted =>
    \A p \in Pkgs, kind \in Kinds, x \in DepNames :
      (~NoGroupRefs(manifests[p]) /\ PostDefiners(p, kind, x) # {}) =>
        /\ Has(MapOf(manifests[p], kind), x)
        /\ <<Get(MapOf(manifests[p], kind), x)>>
             = EntryIn(PostReg, manifests[p].depGroups.refs[Max(PostDefiners(p, kind, x))],
                       kind, x)

\* C11 witness: generate completed for a manifest that references two groups
\* listing x at different versions and that did not declare x.
PostGenerateConsistencyWitness ==
  /\ GenerateCompleted
  /\ \E p \in Pkgs, x \in DepNames :
       /\ ~Declares(p, "dependencies", x)
       /\ PostDefiners(p, "dependencies", x) = {1, 2}
       /\ EntryIn(PostReg, manifests[p].depGroups.refs[1], "dependencies", x)
            # EntryIn(PostReg, manifests[p].depGroups.refs[2], "dependencies", x)

\* generate processed manifest p: it wrote it back.
Processed(p) == GenerateCompleted /\ ~NoGroupRefs(AutoPopulate(pre.manifests[p]))

\* The script of the three cases: the tool's command for none, the old script
\* chained with the tool's command when it does not run the tool, the old
\* script when it does.
HookFor(old, none) ==
  IF none THEN Script(<<generateCmd>>)
  ELSE IF ~InvokesTool(old) THEN Script(Append(old.cmds, generateCmd))
  ELSE old

\* C15 as stated: the script is taken as absent only when the manifest has
\* no preinstall script; a second run leaves the script of the first.
InstallHookInjectionAsStated ==
  \A p \in Pkgs :
    Processed(p) =>
      /\ manifests[p].preinstall
           = HookFor(pre.manifests[p].preinstall, ~pre.manifests[p].preinstall.present)
      /\ (Len(ops) = 2 /\ ~out.prevErr) => manifests[p].preinstall = pre.manifests[p].preinstall

\* C15: for every manifest that generate processed, the preinstall script is
\* the tool's command if there was none or it was the empty string, the old
\* script chained with the tool's command if it did not contain the tool's
\* name, and the old script if it did; the second of two generate runs leaves
\* the script the first left.
InstallHookInjection ==
  \A p \in Pkgs :
    Processed(p) =>
      /\ manifests[p].preinstall
           = HookFor(pre.manifests[p].preinstall,
                     ~pre.manifests[p].preinstall.present
                       \/ pre.manifests[p].preinstall.cmds = <<"">>)
      /\ (Len(ops) = 2 /\ ~out.prevErr) => manifests[p].preinstall = pre.manifests[p].preinstall

\* C15 witness: a second generate run has processed a manifest that came
\* with another command as its preinstall script.
InstallHookInjectionWitness ==
  /\ Len(ops) = 2
  /\ ~out.prevErr
  /\ \E p \in Pkgs :
       /\ Processed(p)
       /\ start.manifests[p].preinstall = Script(<<"build">>)
       /\ manifests[p].preinstall = Script(<<"build", generateCmd>>)

\* C16 as stated: a generate run writes every manifest whose depGroups was an
\* empty array back with depGroups naming its landing group, holding every
\* entry of that group as the registry file lists it, and leaves a manifest
\* without a depGroups field without one.
AutoPopulation ==
  out.op = "generate" =>
    \A p \in Pkgs :
      /\ pre.manifests[p].depGroups = Refs(<<>>) =>
           /\ manifests[p].depGroups = Refs(<<LandingGroup(pre.manifests[p])>>)
           /\ \A kind \in Kinds, x \in DepNames :
                Has(MapOf(PostReg[LandingGroup(pre.manifests[p])], kind), x) =>
                  <<Get(MapOf(manifests[p], kind), x)>>
                    = EntryIn(PostReg, LandingGroup(pre.manifests[p]), kind, x)
      /\ ~pre.manifests[p].depGroups.present => manifests[p] = pre.manifests[p]

\* C20: in a generate run the registry file is the one the sync step left,
\* the registry used by the merge step is the parse of that file, each
\* processed manifest is the merge of the manifest against it (with the
\* install hook), and every entry that the sync step added or updated in a
\* group is in each processed manifest that references the group, whichever
\* manifest the entry came from.
TwoPhaseOrdering ==
  out.op = "generate" =>
    /\ regFile = syncFromPackages(pre.regFile, pre.manifests).file
    /\ out.loaded = yamlParse(regFile.doc)
    /\ \A p \in Pkgs :
         Processed(p) =>
           /\ manifests[p] =
                [mergeDepGroups(AutoPopulate(pre.manifests[p]), out.loaded.groups).pkg
                   EXCEPT !.preinstall = InjectPreinstall(@)]
           /\ \A i \in DOMAIN out.log :
                (\E j \in DOMAIN manifests[p].depGroups.refs :
                    manifests[p].depGroups.refs[j] = out.log[i].group)
                => Has(MapOf(manifests[p], out.log[i].kind), out.log[i].dep)

\* C20 witness: the sync step of a generate run promoted x from one manifest
\* into a group that another manifest references, and that manifest, which
\* did not declare x, was written with x.
TwoPhaseOrderingWitness ==
  /\ GenerateCompleted
  /\ \E p, q \in Pkgs, kind \in Kinds, x \in DepNames :
       /\ p # q
       /\ Declares(q, kind, x)
       /\ ~Declares(p, kind, x)
       /\ \E i \in DOMAIN out.log :
            /\ out.log[i].type = "added"
            /\ out.log[i].dep = x
            /\ out.log[i].kind = kind
            /\ pre.manifests[p].depGroups = Refs(<<out.log[i].group>>)
       /\ Has(MapOf(manifests[p], kind), x)

\* ============================================================ command line
Ran == out.op \in {"generate", "sync", "noroot", "usage"}

\* generate and sync: status 1 with a message on the error stream when the
\* run hit a fatal error or found no workspace root, status 0 and no message
\* otherwise; usage is printed by neither.
CommandStatus ==
  out.op \in {"generate", "sync", "noroot"} =>
    /\ out.exit = IF out.err \/ out.op = "noroot" THEN 1 ELSE 0
    /\ out.stderr <=> out.exit = 1
    /\ ~out.usage
    /\ out.op = "noroot" => regFile = pre.regFile /\ manifests = pre.manifests

\* C19 as stated: the commands exit as above; the tool run with no argument
\* prints usage and exits 0, run with any argument that is no command it
\* prints usage and exits 1.
CommandLineExitStatusAsStated ==
  Ran =>
    /\ CommandStatus
    /\ out.op = "usage" =>
         /\ out.usage
         /\ out.exit = IF out.arg.present THEN 1 ELSE 0

\* C19: the commands exit as above; the tool run with no argument or with
\* the empty string as its argument prints usage and exits 0, run with any
\* other argument that is no command it prints usage and exits 1.
CommandLineExitStatus ==
  Ran =>
    /\ CommandStatus
    /\ out.op = "usage" =>
         /\ out.usage
         /\ out.exit = IF out.arg.present /\ out.arg.text # "" THEN 1 ELSE 0

\* C19 witness: after a run that printed usage, a sync run has ended in a
\* fatal error, with a message and status 1.
CommandLineExitStatusWitness ==
  /\ ops = <<"usage", "sync">>
  /\ out.op = "sync"
  /\ out.err
  /\ out.stderr
  /\ out.exit = 1

\* --------------------------------------------- unparseable manifest files
\* A manifest file that is not valid JSON: nothing can be read from it.
Unparseable(root) == [ManifestFrom(<<>>, 1, NoRefs, root) EXCEPT !.valid = FALSE]

\* A workspace of at most MaxMalformedEntries entries in which any of the
\* manifest files may be unparseable.
InitMalformed ==
  /\ \E me \in {s \in SeqsUpTo(ManifestEntries, MaxMalformedEntries) : UniqueSlots(s)} :
     \E re \in {s \in SeqsUpTo(RegistryEntries, MaxMalformedEntries - Len(me)) :
                   UniqueSlots(s)} :
     \E refs \in {r \in [Pkgs -> RefChoices(MaxRefs)] :
                     TotalRefs(r) <= MaxRefs /\ Len(r[1].refs) <= MaxRootRefs} :
     \E bad \in SUBSET Pkgs :
       /\ regFile = FileFrom(re)
       /\ manifests = [p \in Pkgs |->
                         IF p \in bad THEN Unparseable(p = 1)
                         ELSE ManifestFrom(me, p, refs[p], p = 1)]
  /\ start = [regFile |-> regFile, manifests |-> manifests]
  /\ ops = <<>>
  /\ pre = [regFile |-> regFile, manifests |-> manifests]
  /\ out = NoOut
  /\ mergeIn = NoMerge
  /\ mergeOut = <<>>

NextMalformed == Sync \/ Generate \/ NoRoot

SpecMalformed == InitMalformed /\ [][NextMalformed]_vars

\* ------------------------------------------- sync with empty version strings
\* One manifest and a registry file whose versions may be the empty string.
InitEmptyVersions ==
  \E me \in {s \in SeqsUpTo(EntriesOf({NumPkgs}, Versions \cup {EmptyVersion}),
                             MaxEmptyEntries) : UniqueSlots(s)} :
  \E re \in {s \in SeqsUpTo(EntriesOf(SyncGroups, RegistryVersions \cup {EmptyVersion}),
                             MaxEmptyEntries - Len(me)) : UniqueSlots(s)} :
  \E refs \in RefChoicesOver(SyncGroups, MaxRefs) :
    /\ regFile = FileFrom(re)
    /\ manifests = [p \in Pkgs |->
                      IF p = NumPkgs THEN ManifestFrom(me, p, refs, p = 1)
                      ELSE ManifestFrom(<<>>, p, NoRefs, p = 1)]

InitEmpty ==
  /\ InitEmptyVersions
  /\ start = [regFile |-> regFile, manifests |-> manifests]
  /\ ops = <<>>
  /\ pre = [regFile |-> regFile, manifests |-> manifests]
  /\ out = NoOut
  /\ mergeIn = NoMerge
  /\ mergeOut = <<>>

NextEmpty == Sync

SpecEmpty == InitEmpty /\ [][NextEmpty]_vars

\* ================================================= syncFromPackages, again
\* C21 as stated: a sync run that follows a completed sync run, the manifests
\* being the same, adds nothing and overwrites nothing, reports that the
\* registry is up to date and leaves the registry file as the first run left
\* it.
SyncFixpointInOneRun ==
  (ops = <<"sync", "sync">> /\ ~out.prevErr) =>
    /\ ~out.err
    /\ out.log = <<>>
    /\ ~out.wrote
    /\ regFile = pre.regFile

\* The target groups of manifest p, in the order sync scans them.
TargetsOf(p) == targetGroups(pre.manifests[p])

\* Position i is the first one of p's target groups that listed dep under
\* kind before the run.
FirstListing(p, kind, dep, i) ==
  /\ i \in DOMAIN TargetsOf(p)
  /\ EntryIn(PreReg, TargetsOf(p)[i], kind, dep) # <<>>
  /\ \A j \in 1..(i - 1) : EntryIn(PreReg, TargetsOf(p)[j], kind, dep) = <<>>

\* Two different target groups of p listed dep under kind before the run.
ListedInTwoTargets(p, kind, dep) ==
  \E i, j \in DOMAIN TargetsOf(p) :
    /\ TargetsOf(p)[i] # TargetsOf(p)[j]
    /\ EntryIn(PreReg, TargetsOf(p)[i], kind, dep) # <<>>
    /\ EntryIn(PreReg, TargetsOf(p)[j], kind, dep) # <<>>

\* C22 as stated: when a manifest that sync does not skip declares x, and x is
\* present by name in two or more of its target groups, the run leaves the
\* first such group with the manifest's version (unless that is a
\* workspace-protocol specifier) and leaves the entries for x in the other
\* target groups as they were. (No other manifest declares x, so every change
\* to x is this entry's doing.)
FirstMatchOnlyUpdateAsStated ==
  out.op = "sync" =>
    \A p \in Pkgs, kind \in Kinds, x \in DepNames :
      (/\ ~SkippedBySync(p)
       /\ Declares(p, kind, x)
       /\ OnlyDeclarer(p, kind, x)
       /\ ListedInTwoTargets(p, kind, x))
      => \A i \in DOMAIN TargetsOf(p) :
           FirstListing(p, kind, x, i)
           => /\ Declared(p, kind, x) # WorkspaceVersion
                 => EntryIn(PostReg, TargetsOf(p)[i], kind, x) = <<Declared(p, kind, x)>>
              /\ \A j \in DOMAIN TargetsOf(p) :
                   TargetsOf(p)[j] # TargetsOf(p)[i]
                   => EntryIn(PostReg, TargetsOf(p)[j], kind, x)
                        = EntryIn(PreReg, TargetsOf(p)[j], kind, x)

\* The group lists dep under kind with a version that is not the empty string.
NonEmptyEntryIn(groups, g, kind, dep) ==
  /\ EntryIn(groups, g, kind, dep) # <<>>
  /\ EntryIn(groups, g, kind, dep) # <<EmptyVersion>>

\* Position i is the first one of p's target groups that listed dep under
\* kind with a non-empty version before the run.
FirstNonEmptyListing(p, kind, dep, i) ==
  /\ i \in DOMAIN TargetsOf(p)
  /\ NonEmptyEntryIn(PreReg, TargetsOf(p)[i], kind, dep)
  /\ \A j \in 1..(i - 1) : ~NonEmptyEntryIn(PreReg, TargetsOf(p)[j], kind, dep)

\* C22: when a manifest that sync does not skip declares x, and x is listed
\* with a non-empty version in its target groups, the run leaves the first
\* such group with the manifest's version (unless that is a workspace-protocol
\* specifier) and leaves the entries for x in the other target groups as they
\* were, even where they differ from the manifest's version. (No other
\* manifest declares x, so every change to x is this entry's doing.)
FirstMatchOnlyUpdate ==
  out.op = "sync" =>
    \A p \in Pkgs, kind \in Kinds, x \in DepNames :
      (/\ ~SkippedBySync(p)
       /\ Declares(p, kind, x)
       /\ OnlyDeclarer(p, kind, x))
      => \A i \in DOMAIN TargetsOf(p) :
           FirstNonEmptyListing(p, kind, x, i)
           => /\ Declared(p, kind, x) # WorkspaceVersion
                 => EntryIn(PostReg, TargetsOf(p)[i], kind, x) = <<Declared(p, kind, x)>>
              /\ \A j \in DOMAIN TargetsOf(p) :
                   TargetsOf(p)[j] # TargetsOf(p)[i]
                   => EntryIn(PostReg, TargetsOf(p)[j], kind, x)
                        = EntryIn(PreReg, TargetsOf(p)[j], kind, x)

\* C22 witness: a synced manifest declared x at a version that neither of two
\* target groups listing x recorded; the first now records it and the second
\* still differs.
FirstMatchOnlyUpdateWitness ==
  /\ out.op = "sync"
  /\ \E p \in Pkgs, x \in DepNames :
       /\ ~SkippedBySync(p)
       /\ Declares(p, "dependencies", x)
       /\ Declared(p, "dependencies", x) # WorkspaceVersion
       /\ Len(TargetsOf(p)) = 2
       /\ TargetsOf(p)[1] # TargetsOf(p)[2]
       /\ \A j \in 1..2 :
            /\ NonEmptyEntryIn(PreReg, TargetsOf(p)[j], "dependencies", x)
            /\ EntryIn(PreReg, TargetsOf(p)[j], "dependencies", x)
                 # <<Declared(p, "dependencies", x)>>
       /\ EntryIn(PostReg, TargetsOf(p)[1], "dependencies", x)
            = <<Declared(p, "dependencies", x)>>
       /\ EntryIn(PostReg, TargetsOf(p)[2], "dependencies", x)
            # <<Declared(p, "dependencies", x)>>

\* C23 as stated: whenever a sync run overwrites a group's version of x with
\* a manifest's version (x being declared by that manifest alone), the run's
\* messages hold an update message naming x, the version the group recorded
\* before the run, the manifest's version and the group.
UpdateMessageContent ==
  out.op = "sync" =>
    \A p \in Pkgs, kind \in Kinds, x \in DepNames, i \in 1..MaxRefs :
      (/\ ~SkippedBySync(p)
       /\ Declares(p, kind, x)
       /\ Declared(p, kind, x) # WorkspaceVersion
       /\ OnlyDeclarer(p, kind, x)
       /\ FirstListing(p, kind, x, i)
       /\ EntryIn(PreReg, TargetsOf(p)[i], kind, x) # <<Declared(p, kind, x)>>)
      => \E n \in DOMAIN out.log :
           out.log[n] = Updated(x, kind,
                                EntryIn(PreReg, TargetsOf(p)[i], kind, x)[1],
                                Declared(p, kind, x), TargetsOf(p)[i])

\* The landing group of manifest p.
LandingOf(p) == LandingGroup(pre.manifests[p])

\* Manifest p declares dep under kind at a version sync looks up, and the
\* lookup in p's target groups finds nothing: the entry is collected as new.
CollectedAsNew(p, kind, dep) ==
  /\ ~SkippedBySync(p)
  /\ Declares(p, kind, dep)
  /\ Declared(p, kind, dep) # WorkspaceVersion
  /\ FirstGroupWith(p, kind, dep) = ""

\* No message of the run reports dep as added under kind.
NoAddition(kind, dep) ==
  \A n \in DOMAIN out.log :
    ~(out.log[n].type = "added" /\ out.log[n].kind = kind /\ out.log[n].dep = dep)

\* The workspace's manifests declare nothing but dep under kind in p.
SoleEntry(p, kind, dep) ==
  \A q \in Pkgs, k \in Kinds, y \in DepNames :
    Declares(q, k, y) => (q = p /\ k = kind /\ y = dep)

\* C24 as stated: when an entry collected as new for a manifest is already
\* present by name in the same-kind map of the manifest's landing group, the
\* run leaves the landing group's version as it was and reports no addition
\* of it; when it is the workspace's only entry, the run does not write the
\* registry file.
LandingGroupGuardAsStated ==
  out.op = "sync" =>
    \A p \in Pkgs, kind \in Kinds, x \in DepNames :
      (/\ CollectedAsNew(p, kind, x)
       /\ OnlyDeclarer(p, kind, x)
       /\ EntryIn(PreReg, LandingOf(p), kind, x) # <<>>)
      => /\ EntryIn(PostReg, LandingOf(p), kind, x) = EntryIn(PreReg, LandingOf(p), kind, x)
         /\ NoAddition(kind, x)
         /\ SoleEntry(p, kind, x) => (~out.wrote /\ out.log = <<>>)

\* C24: when an entry collected as new for a manifest is already listed with
\* a non-empty version in the same-kind map of the manifest's landing group,
\* the run leaves the landing group's version as it was and reports no
\* addition of it, whatever version the manifest declares; when it is the
\* workspace's only entry, the run does not write the registry file.
LandingGroupGuard ==
  out.op = "sync" =>
    \A p \in Pkgs, kind \in Kinds, x \in DepNames :
      (/\ CollectedAsNew(p, kind, x)
       /\ OnlyDeclarer(p, kind, x)
       /\ NonEmptyEntryIn(PreReg, LandingOf(p), kind, x))
      => /\ EntryIn(PostReg, LandingOf(p), kind, x) = EntryIn(PreReg, LandingOf(p), kind, x)
         /\ NoAddition(kind, x)
         /\ SoleEntry(p, kind, x) => (~out.wrote /\ out.log = <<>>)

\* C24 witness: a synced manifest declared x at a version other than the one
\* its landing group lists; x was in none of its target groups, and the
\* landing group still lists the old version.
LandingGroupGuardWitness ==
  /\ out.op = "sync"
  /\ \E p \in Pkgs, x \in DepNames :
       /\ CollectedAsNew(p, "dependencies", x)
       /\ NonEmptyEntryIn(PreReg, LandingOf(p), "dependencies", x)
       /\ EntryIn(PreReg, LandingOf(p), "dependencies", x)
            # <<Declared(p, "dependencies", x)>>
       /\ EntryIn(PostReg, LandingOf(p), "dependencies", x)
            = EntryIn(PreReg, LandingOf(p), "dependencies", x)
       /\ ~out.wrote

OtherKind(kind) == IF kind = "dependencies" THEN "devDependencies" ELSE "dependencies"

\* Before the run no target group of p listed dep under kind, and one listed
\* it under the other kind.
ListedUnderOtherKindOnly(p, kind, dep) ==
  /\ \A i \in DOMAIN TargetsOf(p) : EntryIn(PreReg, TargetsOf(p)[i], kind, dep) = <<>>
  /\ \E i \in DOMAIN TargetsOf(p) :
       EntryIn(PreReg, TargetsOf(p)[i], OtherKind(kind), dep) # <<>>

\* A message of the run reports dep as added under kind to group g at version.
AdditionReported(kind, dep, version, g) ==
  \E n \in DOMAIN out.log : out.log[n] = Added(dep, kind, version, g)

\* C25: when a manifest that sync does not skip declares x under one kind, and
\* its target groups list x under the other kind only, the run does not treat
\* x as found: the landing group lists x under the manifest's kind afterwards
\* (at the manifest's version, with an addition message, unless the landing
\* group listed it with a non-empty version before), and the entries for x
\* under the other kind stay as they were when no manifest declares x under
\* that kind.
LookupPerKind ==
  out.op = "sync" =>
    \A p \in Pkgs, kind \in Kinds, x \in DepNames :
      (/\ ~SkippedBySync(p)
       /\ Declares(p, kind, x)
       /\ Declared(p, kind, x) # WorkspaceVersion
       /\ OnlyDeclarer(p, kind, x)
       /\ ListedUnderOtherKindOnly(p, kind, x))
      => /\ EntryIn(PostReg, LandingOf(p), kind, x) # <<>>
         /\ ~NonEmptyEntryIn(PreReg, LandingOf(p), kind, x)
              => /\ EntryIn(PostReg, LandingOf(p), kind, x) = <<Declared(p, kind, x)>>
                 /\ AdditionReported(kind, x, Declared(p, kind, x), LandingOf(p))
         /\ (\A q \in Pkgs : ~Declares(q, OtherKind(kind), x))
              => \A g \in GroupNames :
                   EntryIn(PostReg, g, OtherKind(kind), x)
                     = EntryIn(PreReg, g, OtherKind(kind), x)

\* C25 witness: a synced manifest declared x as a dev dependency at a version
\* other than the one its only target group lists x at under dependencies;
\* the landing group now lists x under devDependencies and the target group's
\* entry is as it was.
LookupPerKindWitness ==
  /\ out.op = "sync"
  /\ \E p \in Pkgs, x \in DepNames :
       /\ ~SkippedBySync(p)
       /\ Declares(p, "devDependencies", x)
       /\ Declared(p, "devDependencies", x) # WorkspaceVersion
       /\ TargetsOf(p) = <<"shared">>
       /\ ListedUnderOtherKindOnly(p, "devDependencies", x)
       /\ EntryIn(PreReg, "shared", "dependencies", x)
            # <<Declared(p, "devDependencies", x)>>
       /\ EntryIn(PostReg, LandingOf(p), "devDependencies", x)
            = <<Declared(p, "devDependencies", x)>>
       /\ EntryIn(PostReg, "shared", "dependencies", x)
            = EntryIn(PreReg, "shared", "dependencies", x)
       /\ EntryIn(PostReg, "shared", "devDependencies", x) = <<>>

\* ===================================================== mergeDepGroups, again
MergeRefs == mergeIn.pkg.depGroups.refs

\* The version the group referenced at position i gives dep under kind.
VersionAt(i, kind, dep) == Get(MapOf(mergeIn.groups[MergeRefs[i]], kind), dep)

\* The positions before i whose groups exist and define dep under kind.
EarlierDefiners(i, kind, dep) == {j \in Definers(dep, kind) : j < i}

\* The group at position i defines dep under kind, an earlier referenced
\* group did too, and the latest of those gave another version.
ConflictAt(i, kind, dep) ==
  /\ i \in Definers(dep, kind)
  /\ EarlierDefiners(i, kind, dep) # {}
  /\ VersionAt(Max(EarlierDefiners(i, kind, dep)), kind, dep) # VersionAt(i, kind, dep)

\* The warning such a conflict is reported with.
WarningAt(i, kind, dep) ==
  [type |-> "conflict", group |-> MergeRefs[i], dep |-> dep, kind |-> kind,
   version |-> VersionAt(i, kind, dep),
   oldVersion |-> VersionAt(Max(EarlierDefiners(i, kind, dep)), kind, dep),
   oldGroup |-> MergeRefs[Max(EarlierDefiners(i, kind, dep))]]

Conflicts ==
  {c \in (DOMAIN MergeRefs) \X Kinds \X DepNames : ConflictAt(c[1], c[2], c[3])}

\* C26: the version-conflict warnings of a merge are exactly those of the
\* positions, kinds and names where the referenced group defines the name, an
\* earlier existing referenced group defined it in the same map, and the
\* latest of those gave another version: one warning for each, naming both
\* versions and both groups, and no other conflict warning (none for the
\* manifest's own version, none across the two kinds).
ConflictWarningCondition ==
  Len(mergeOut) >= 1 =>
    /\ \A c \in Conflicts :
         Count(mergeOut[1].warnings, WarningAt(c[1], c[2], c[3]))
           = Cardinality({d \in Conflicts :
                            WarningAt(d[1], d[2], d[3]) = WarningAt(c[1], c[2], c[3])})
    /\ \A n \in DOMAIN mergeOut[1].warnings :
         mergeOut[1].warnings[n].type = "conflict"
         => \E c \in Conflicts : mergeOut[1].warnings[n] = WarningAt(c[1], c[2], c[3])

\* C26 witness: three referenced groups gave x the versions v, w, v: the
\* merge warned at the second and at the third, and the manifest's own
\* differing version of another name drew no warning.
ConflictWarningConditionWitness ==
  /\ Len(mergeOut) >= 1
  /\ Len(MergeRefs) = 3
  /\ \E x \in DepNames :
       /\ Definers(x, "dependencies") = {1, 2, 3}
       /\ VersionAt(1, "dependencies", x) = VersionAt(3, "dependencies", x)
       /\ VersionAt(1, "dependencies", x) # VersionAt(2, "dependencies", x)
       /\ Len(mergeOut[1].warnings) = 2
       /\ mergeOut[1].warnings[2] = WarningAt(3, "dependencies", x)

\* C26 witness, second case: a manifest's own version differs from the one
\* its only defining group gives, and the merge warned of nothing.
ConflictWarningManifestCase ==
  /\ Len(mergeOut) >= 1
  /\ \E x \in DepNames :
       /\ Cardinality(Definers(x, "dependencies")) = 1
       /\ Has(mergeIn.pkg.dependencies, x)
       /\ \A i \in Definers(x, "dependencies") :
            Get(mergeIn.pkg.dependencies, x) # VersionAt(i, "dependencies", x)
       /\ mergeOut[1].warnings = <<>>

\* ======================================================== sync, once more
\* C27: after a sync run that completed, every dependency that a manifest
\* sync did not skip declares at a version that is no workspace-protocol
\* specifier is listed, in the registry file, under the same kind in one of
\* the manifest's target groups or in its landing group.
SyncCoverage ==
  (out.op = "sync" /\ ~out.err) =>
    \A p \in Pkgs, kind \in Kinds, x \in DepNames :
      (/\ ~SkippedBySync(p)
       /\ Declares(p, kind, x)
       /\ Declared(p, kind, x) # WorkspaceVersion)
      => \/ EntryIn(PostReg, LandingOf(p), kind, x) # <<>>
         \/ \E i \in DOMAIN TargetsOf(p) :
              EntryIn(PostReg, TargetsOf(p)[i], kind, x) # <<>>

\* C27 witness: a completed sync run has promoted a name that no group of the
\* registry listed into the landing group of a manifest that refers to
\* another group, which is still without it.
SyncCoverageWitness ==
  /\ out.op = "sync" /\ ~out.err
  /\ \E p \in Pkgs, x \in DepNames :
       /\ ~SkippedBySync(p)
       /\ Declares(p, "dependencies", x)
       /\ Declared(p, "dependencies", x) # WorkspaceVersion
       /\ LandingOf(p) = "standalone"
       /\ TargetsOf(p) = <<"shared">>
       /\ \A g \in GroupNames : EntryIn(PreReg, g, "dependencies", x) = <<>>
       /\ EntryIn(PostReg, "shared", "dependencies", x) = <<>>
       /\ EntryIn(PostReg, "standalone", "dependencies", x)
            = <<Declared(p, "dependencies", x)>>

\* ================================================ generateDependencies, again
\* The manifests that had a depGroups field before the run.
WithDepGroupsField == {p \in Pkgs : pre.manifests[p].depGroups.present}

\* C28: a generate run leaves every manifest whose depGroups field is absent
\* as it was, its preinstall script included, and counts as processed no more
\* manifests than have the field (all of them when the run completes).
NonParticipantsNotRewritten ==
  out.op = "generate" =>
    /\ \A p \in Pkgs \ WithDepGroupsField : manifests[p] = pre.manifests[p]
    /\ out.processed <= Cardinality(WithDepGroupsField)
    /\ ~out.err => out.processed = Cardinality(WithDepGroupsField)

\* C28 witness: a generate run that completed has processed one manifest and
\* left alone another that has dependencies, no depGroups field and no
\* preinstall script running the tool.
NonParticipantsNotRewrittenWitness ==
  /\ out.op = "generate" /\ ~out.err
  /\ out.processed = 1
  /\ \E p \in Pkgs \ WithDepGroupsField :
       /\ pre.manifests[p].dependencies.present
       /\ ~InvokesTool(pre.manifests[p].preinstall)
       /\ manifests[p] = pre.manifests[p]

\* ================================================== unparseable manifests
SomeManifestUnparseable == \E p \in Pkgs : ~pre.manifests[p].valid

\* C29: a sync or generate run in a workspace with an unparseable manifest
\* file ends with an error, exit status 1, and has written neither the
\* registry file nor any manifest: the workspace is as it was.
AbortOnMalformedManifest ==
  (out.op \in {"sync", "generate", "noroot"} /\ SomeManifestUnparseable) =>
    /\ out.err
    /\ out.exit = 1
    /\ ~out.wrote
    /\ out.processed = 0
    /\ regFile = pre.regFile
    /\ manifests = pre.manifests

\* C29 witness: generate has run in a workspace without registry file whose
\* first manifest refers to a group and declares a dependency and whose last
\* manifest is unparseable; the run failed and nothing was written.
AbortOnMalformedManifestWitness ==
  /\ out.op = "generate"
  /\ ~pre.regFile.exists
  /\ ~NoGroupRefs(pre.manifests[1])
  /\ pre.manifests[1].dependencies.present
  /\ ~pre.manifests[NumPkgs].valid
  /\ out.err
  /\ ~regFile.exists
  /\ manifests = pre.manifests

\* ============================================ persisting an empty registry
\* C30 as stated: from a workspace without registry file, a first generate
\* run completes, the registry it reloads for the merge has the groups and
\* entries that sync held in memory when it ended, and a sync run after it
\* completes too.
EmptyRegistrySurvivesReload ==
  ~start.regFile.exists =>
    /\ ops = <<"generate">> => (~out.err /\ out.loaded = out.mem)
    /\ ops = <<"generate", "sync">> => ~out.err

====
